---- MODULE Spec2Model ----
(***************************************************************************)
(* weak_static: the accessor generated by weak_static! (src/src/lib.rs).   *)
(* One singleton, several threads.  Each thread repeatedly calls the       *)
(* accessor FOO() and drops handles (Arc<T>) it holds.  Every atomic step  *)
(* of the accessor body is one action; Arc's strong count, Weak::upgrade,  *)
(* Mutex locking and poisoning follow std's semantics.                     *)
(***************************************************************************)
EXTENDS Integers, Sequences, FiniteSets

NumThreads == 2     \* threads calling the accessor
MaxInst == 3        \* instances constructed in one run
MaxHold == 3        \* handles one thread keeps at a time
MaxFairInst == 2    \* instances constructed in one run of the fair specification

Threads == 1..NumThreads
Inst == 1..MaxInst
NoThread == 0       \* the mutex is free
Empty == 0          \* Weak::new(): a weak reference to nothing; upgrade() = None

VARIABLES
    once,       \* lazy_static's Once has run: VALUE exists
    mutex,      \* thread holding VALUE's lock, or NoThread
    poisoned,   \* VALUE's mutex is poisoned
    value,      \* the Weak<T> inside VALUE: Empty or an instance
    strong,     \* strong[i]: Arc strong count of instance i
    destroyed,  \* instances whose destructor (Drop for T) has run
    ninst,      \* instances constructed so far; the next one is ninst + 1
    pc,         \* pc[t]: where thread t is
    up,         \* up[t]: the handle value.upgrade() gave t (Empty = None)
    new_value,  \* new_value[t]: the Arc t built in the closure (Empty = none)
    dying,      \* dying[t]: instance whose last handle t just dropped
    holds,      \* holds[t][i]: handles to instance i that t keeps
    outcome,    \* outcome[t]: how t's last accessor call ended
    \* history, read by the properties only
    log,        \* construction / destruction events, in order
    inits,      \* evaluations of $init so far (completed or panicked)
    genInits,   \* evaluations of $init since the strong count last reached 0
    released,   \* some handle has been dropped
    active,     \* threads that have taken a step
    contended,  \* inits when all threads were last racing for a vacant slot
                \* with no handle dropped since; -1 when there is no such race
    dropper,    \* dropper[i]: thread whose drop took strong[i] from 1 to 0
    destroyer,  \* destroyer[i]: thread that ran i's destructor
    snapOwn,    \* snapOwn[t]: instance t held a handle to when it called
    snapVacant, \* snapVacant[t]: no handle was outstanding when t called
    snapN,      \* snapN[t]: ninst when t called
    snapLog     \* snapLog[t]: Len(log) when t called

vars == <<once, mutex, poisoned, value, strong, destroyed, ninst, pc, up,
          new_value, dying, holds, outcome, log, inits, genInits, released,
          active, contended, dropper, destroyer, snapOwn, snapVacant, snapN, snapLog>>

slot == <<once, mutex, poisoned, value>>
arcs == <<strong, destroyed, ninst>>
locals == <<up, new_value, dying>>
snaps == <<snapOwn, snapVacant, snapN, snapLog>>

\* Places of a thread.
\*   idle     outside the accessor, not dropping
\*   lock     called, VALUE dereferenced, waiting in VALUE.lock()
\*   unwrap   lock() returned Err(PoisonError(guard)); unwrap() about to panic
\*   upgrade  holds the guard, about to run value.upgrade()
\*   init     upgrade() was None: in the closure, evaluating $init
\*   relock   in the closure, $init has called the accessor again: the
\*            thread is inside lock() on the mutex it already holds
\*   store    new_value built, about to assign *value
\*   ret      result ready, guard about to go out of scope
\*   dtor     dropped the last handle, about to run T's destructor
InCall == {"lock", "unwrap", "upgrade", "init", "relock", "store", "ret"}
Critical == {"upgrade", "init", "relock", "store", "ret"}

RECURSIVE SumOver(_, _)
SumOver(f, S) == IF S = {} THEN 0
                 ELSE LET x == CHOOSE y \in S : TRUE
                      IN  f[x] + SumOver(f, S \ {x})

Held(t) == SumOver(holds[t], Inst)

\* Threads that may still construct in their current call.
MayConstruct == {t \in Threads : pc[t] \in {"lock", "upgrade", "init"}}

Live == {i \in Inst : strong[i] > 0}

Init ==
    /\ once = FALSE
    /\ mutex = NoThread
    /\ poisoned = FALSE
    /\ value = Empty
    /\ strong = [i \in Inst |-> 0]
    /\ destroyed = {}
    /\ ninst = 0
    /\ pc = [t \in Threads |-> "idle"]
    /\ up = [t \in Threads |-> Empty]
    /\ new_value = [t \in Threads |-> Empty]
    /\ dying = [t \in Threads |-> Empty]
    /\ holds = [t \in Threads |-> [i \in Inst |-> 0]]
    /\ outcome = [t \in Threads |-> "none"]
    /\ log = <<>>
    /\ inits = 0
    /\ genInits = 0
    /\ released = FALSE
    /\ active = {}
    /\ contended = -1
    /\ dropper = [i \in Inst |-> NoThread]
    /\ destroyer = [i \in Inst |-> NoThread]
    /\ snapOwn = [t \in Threads |-> Empty]
    /\ snapVacant = [t \in Threads |-> FALSE]
    /\ snapN = [t \in Threads |-> 0]
    /\ snapLog = [t \in Threads |-> 0]

Act(t) == active' = active \cup {t}

ClearSnap(t) ==
    /\ snapOwn' = [snapOwn EXCEPT ![t] = Empty]
    /\ snapVacant' = [snapVacant EXCEPT ![t] = FALSE]
    /\ snapN' = [snapN EXCEPT ![t] = 0]
    /\ snapLog' = [snapLog EXCEPT ![t] = 0]

\* Faulty variant of Deref: the storage is re-initialised on every call.
DerefEveryCall ==
    /\ once' = TRUE
    /\ value' = Empty
    /\ poisoned' = FALSE
    /\ mutex' = NoThread

\* lazy_static: the first dereference of VALUE runs Default::default() once,
\* giving an unlocked, unpoisoned Mutex around Weak::new(); later ones do not.
Deref ==
    /\ once' = TRUE
    /\ value' = IF once THEN value ELSE Empty
    /\ poisoned' = IF once THEN poisoned ELSE FALSE
    /\ mutex' = IF once THEN mutex ELSE NoThread

\* FOO() is called: VALUE is dereferenced and the thread enters lock().
Call(t) ==
    /\ pc[t] = "idle"
    /\ Held(t) < MaxHold
    /\ ninst + Cardinality(MayConstruct) < MaxInst
    /\ Deref
    /\ pc' = [pc EXCEPT ![t] = "lock"]
    /\ outcome' = [outcome EXCEPT ![t] = "none"]
    /\ snapOwn' = [snapOwn EXCEPT ![t] =
                     IF \E i \in Inst : holds[t][i] > 0
                     THEN CHOOSE i \in Inst : holds[t][i] > 0 ELSE Empty]
    /\ snapVacant' = [snapVacant EXCEPT ![t] = (Live = {})]
    /\ snapN' = [snapN EXCEPT ![t] = ninst]
    /\ snapLog' = [snapLog EXCEPT ![t] = Len(log)]
    /\ contended' = IF /\ Live = {}
                       /\ \A u \in Threads \ {t} :
                            pc[u] \in {"lock", "upgrade", "init"} /\ snapVacant[u]
                    THEN inits ELSE contended
    /\ Act(t)
    /\ UNCHANGED <<arcs, locals, holds, log, inits, genInits, released,
                   dropper, destroyer>>

\* Faulty variant of Lock: no mutual exclusion, the guard is handed out at once.
LockNoExclusion(t) ==
    /\ pc[t] = "lock"
    /\ mutex' = t
    /\ pc' = [pc EXCEPT ![t] = IF poisoned THEN "unwrap" ELSE "upgrade"]
    /\ Act(t)
    /\ UNCHANGED <<once, poisoned, value, arcs, locals, holds, outcome, log,
                   inits, genInits, released, contended, dropper, destroyer, snaps>>

\* Faulty variant of Lock: poisoning is ignored (the guard is taken out of the Err).
LockIgnoresPoison(t) ==
    /\ pc[t] = "lock"
    /\ mutex = NoThread
    /\ mutex' = t
    /\ pc' = [pc EXCEPT ![t] = "upgrade"]
    /\ Act(t)
    /\ UNCHANGED <<once, poisoned, value, arcs, locals, holds, outcome, log,
                   inits, genInits, released, contended, dropper, destroyer, snaps>>

\* VALUE.lock(): blocks while another thread holds the mutex; a poisoned
\* mutex is still acquired and handed back inside Err.
Lock(t) ==
    /\ pc[t] = "lock"
    /\ mutex = NoThread
    /\ mutex' = t
    /\ pc' = [pc EXCEPT ![t] = IF poisoned THEN "unwrap" ELSE "upgrade"]
    /\ Act(t)
    /\ UNCHANGED <<once, poisoned, value, arcs, locals, holds, outcome, log,
                   inits, genInits, released, contended, dropper, destroyer, snaps>>

\* .unwrap() on Err: the call panics; the guard inside the error is dropped.
Unwrap(t) ==
    /\ pc[t] = "unwrap"
    /\ mutex' = NoThread
    /\ pc' = [pc EXCEPT ![t] = "idle"]
    /\ outcome' = [outcome EXCEPT ![t] = "poison"]
    /\ ClearSnap(t)
    /\ Act(t)
    /\ UNCHANGED <<once, poisoned, value, arcs, locals, holds, log, inits,
                   genInits, released, contended, dropper, destroyer>>

\* Faulty variant of Upgrade: the stored reference is never resolved.
UpgradeAlwaysNone(t) ==
    /\ pc[t] = "upgrade"
    /\ pc' = [pc EXCEPT ![t] = "init"]
    /\ Act(t)
    /\ UNCHANGED <<slot, arcs, locals, holds, outcome, log, inits, genInits,
                   released, contended, dropper, destroyer, snaps>>

\* Faulty variant of Upgrade: the strong count is not examined, a dead referent is
\* handed out again.
UpgradeIgnoresCount(t) ==
    /\ pc[t] = "upgrade"
    /\ IF value # Empty
       THEN /\ strong' = [strong EXCEPT ![value] = @ + 1]
            /\ up' = [up EXCEPT ![t] = value]
            /\ pc' = [pc EXCEPT ![t] = "ret"]
       ELSE /\ pc' = [pc EXCEPT ![t] = "init"]
            /\ UNCHANGED <<strong, up>>
    /\ Act(t)
    /\ UNCHANGED <<slot, destroyed, ninst, new_value, dying, holds, outcome,
                   log, inits, genInits, released, contended, dropper, destroyer,
                   snaps>>

\* Faulty variant of Upgrade: liveness is judged by the destructor having
\* finished, not by the strong count, so an instance whose last handle is
\* gone but whose destructor has not completed is handed out again.
UpgradeUntilDestroyed(t) ==
    /\ pc[t] = "upgrade"
    /\ IF value # Empty /\ value \notin destroyed
       THEN /\ strong' = [strong EXCEPT ![value] = @ + 1]
            /\ up' = [up EXCEPT ![t] = value]
            /\ pc' = [pc EXCEPT ![t] = "ret"]
       ELSE /\ pc' = [pc EXCEPT ![t] = "init"]
            /\ UNCHANGED <<strong, up>>
    /\ Act(t)
    /\ UNCHANGED <<slot, destroyed, ninst, new_value, dying, holds, outcome,
                   log, inits, genInits, released, contended, dropper, destroyer,
                   snaps>>

\* value.upgrade(): Some(handle) iff the referent's strong count is not 0,
\* and then the count goes up by one, atomically.
Upgrade(t) ==
    /\ pc[t] = "upgrade"
    /\ IF value # Empty /\ strong[value] > 0
       THEN /\ strong' = [strong EXCEPT ![value] = @ + 1]
            /\ up' = [up EXCEPT ![t] = value]
            /\ pc' = [pc EXCEPT ![t] = "ret"]
       ELSE /\ pc' = [pc EXCEPT ![t] = "init"]
            /\ UNCHANGED <<strong, up>>
    /\ Act(t)
    /\ UNCHANGED <<slot, destroyed, ninst, new_value, dying, holds, outcome,
                   log, inits, genInits, released, contended, dropper, destroyer, snaps>>

\* Faulty variant of InitOk: the guard is released before the closure runs,
\* so $init is evaluated outside the lock.
InitOkUnlocked(t) ==
    /\ pc[t] = "init"
    /\ ninst < MaxInst
    /\ mutex' = NoThread
    /\ ninst' = ninst + 1
    /\ strong' = [strong EXCEPT ![ninst + 1] = 1]
    /\ new_value' = [new_value EXCEPT ![t] = ninst + 1]
    /\ log' = Append(log, <<"new", ninst + 1>>)
    /\ inits' = inits + 1
    /\ genInits' = genInits + 1
    /\ pc' = [pc EXCEPT ![t] = "store"]
    /\ Act(t)
    /\ UNCHANGED <<once, poisoned, value, destroyed, up, dying, holds, outcome,
                   released, contended, dropper, destroyer, snaps>>

\* Arc::new($init), $init returning: a new instance with strong count 1.
InitOk(t) ==
    /\ pc[t] = "init"
    /\ ninst < MaxInst
    /\ ninst' = ninst + 1
    /\ strong' = [strong EXCEPT ![ninst + 1] = 1]
    /\ new_value' = [new_value EXCEPT ![t] = ninst + 1]
    /\ log' = Append(log, <<"new", ninst + 1>>)
    /\ inits' = inits + 1
    /\ genInits' = genInits + 1
    /\ pc' = [pc EXCEPT ![t] = "store"]
    /\ Act(t)
    /\ UNCHANGED <<slot, destroyed, up, dying, holds, outcome, released, contended,
                   dropper, destroyer, snaps>>

\* $init panics: the call unwinds, the guard is dropped while panicking,
\* which poisons the mutex and unlocks it.
InitPanic(t) ==
    /\ pc[t] = "init"
    /\ inits' = inits + 1
    /\ genInits' = genInits + 1
    /\ poisoned' = TRUE
    /\ mutex' = NoThread
    /\ pc' = [pc EXCEPT ![t] = "idle"]
    /\ outcome' = [outcome EXCEPT ![t] = "initpanic"]
    /\ ClearSnap(t)
    /\ Act(t)
    /\ UNCHANGED <<once, value, arcs, locals, holds, log, released, contended, dropper,
                   destroyer>>

\* $init itself calls the accessor: the inner call dereferences VALUE and
\* enters lock() on the mutex its own thread holds.  The evaluation of $init
\* has begun and cannot complete.
InitReenter(t) ==
    /\ pc[t] = "init"
    /\ inits' = inits + 1
    /\ genInits' = genInits + 1
    /\ pc' = [pc EXCEPT ![t] = "relock"]
    /\ Act(t)
    /\ UNCHANGED <<slot, arcs, locals, holds, outcome, log, released, contended,
                   dropper, destroyer, snaps>>

\* Faulty variant of RelockPanic: the mutex is re-entrant, the inner call is
\* granted the lock and goes on to resolve the slot.
RelockGranted(t) ==
    /\ pc[t] = "relock"
    /\ pc' = [pc EXCEPT ![t] = "upgrade"]
    /\ Act(t)
    /\ UNCHANGED <<slot, arcs, locals, holds, outcome, log, inits, genInits,
                   released, contended, dropper, destroyer, snaps>>

\* std's Mutex, locked again by its holder: lock() never returns; it either
\* blocks for ever (this action is never taken) or panics.  The panic
\* unwinds through $init and the closure, dropping the guard: the mutex is
\* poisoned and unlocked, and the outer call fails.
RelockPanic(t) ==
    /\ pc[t] = "relock"
    /\ poisoned' = TRUE
    /\ mutex' = NoThread
    /\ pc' = [pc EXCEPT ![t] = "idle"]
    /\ outcome' = [outcome EXCEPT ![t] = "initpanic"]
    /\ ClearSnap(t)
    /\ Act(t)
    /\ UNCHANGED <<once, value, arcs, locals, holds, log, inits, genInits,
                   released, contended, dropper, destroyer>>

\* Faulty variant of Store: the new reference is not written to the slot.
StoreSkipped(t) ==
    /\ pc[t] = "store"
    /\ pc' = [pc EXCEPT ![t] = "ret"]
    /\ Act(t)
    /\ UNCHANGED <<slot, arcs, locals, holds, outcome, log, inits, genInits,
                   released, contended, dropper, destroyer, snaps>>

\* *value = Arc::downgrade(&new_value): the slot now refers to the new instance.
Store(t) ==
    /\ pc[t] = "store"
    /\ value' = new_value[t]
    /\ pc' = [pc EXCEPT ![t] = "ret"]
    /\ Act(t)
    /\ UNCHANGED <<once, mutex, poisoned, arcs, locals, holds, outcome, log,
                   inits, genInits, released, contended, dropper, destroyer, snaps>>

\* The handle the call is about to return.
Result(t) == IF up[t] # Empty THEN up[t] ELSE new_value[t]

\* Faulty variant of Return: the guard outlives the call (the lock stays taken).
ReturnKeepsLock(t) ==
    /\ pc[t] = "ret"
    /\ holds' = [holds EXCEPT ![t][Result(t)] = @ + 1]
    /\ up' = [up EXCEPT ![t] = Empty]
    /\ new_value' = [new_value EXCEPT ![t] = Empty]
    /\ pc' = [pc EXCEPT ![t] = "idle"]
    /\ outcome' = [outcome EXCEPT ![t] = "ok"]
    /\ ClearSnap(t)
    /\ Act(t)
    /\ UNCHANGED <<slot, arcs, dying, log, inits, genInits, released,
                   contended, dropper, destroyer>>

\* End of the block: the guard goes out of scope (unlock) and the caller
\* receives the handle.
Return(t) ==
    /\ pc[t] = "ret"
    /\ mutex' = NoThread
    /\ holds' = [holds EXCEPT ![t][Result(t)] = @ + 1]
    /\ up' = [up EXCEPT ![t] = Empty]
    /\ new_value' = [new_value EXCEPT ![t] = Empty]
    /\ pc' = [pc EXCEPT ![t] = "idle"]
    /\ outcome' = [outcome EXCEPT ![t] = "ok"]
    /\ ClearSnap(t)
    /\ Act(t)
    /\ UNCHANGED <<once, poisoned, value, arcs, dying, log, inits, genInits,
                   released, contended, dropper, destroyer>>

\* Faulty variant of Release: off by one, the destructor is triggered by the drop
\* of the last but one handle too.
ReleaseEarly(t, i) ==
    /\ pc[t] = "idle"
    /\ holds[t][i] > 0
    /\ holds' = [holds EXCEPT ![t][i] = @ - 1]
    /\ strong' = [strong EXCEPT ![i] = @ - 1]
    /\ released' = TRUE
    /\ contended' = -1
    /\ IF strong[i] <= 2
       THEN /\ pc' = [pc EXCEPT ![t] = "dtor"]
            /\ dying' = [dying EXCEPT ![t] = i]
            /\ dropper' = [dropper EXCEPT ![i] = t]
            /\ genInits' = 0
       ELSE UNCHANGED <<pc, dying, dropper, genInits>>
    /\ Act(t)
    /\ UNCHANGED <<slot, destroyed, ninst, up, new_value, outcome, log, inits,
                   destroyer, snaps>>

\* Faulty variant of Release: the last drop only decrements, the destructor is
\* never run.
ReleaseLeaks(t, i) ==
    /\ pc[t] = "idle"
    /\ holds[t][i] > 0
    /\ holds' = [holds EXCEPT ![t][i] = @ - 1]
    /\ strong' = [strong EXCEPT ![i] = @ - 1]
    /\ released' = TRUE
    /\ contended' = -1
    /\ genInits' = IF strong[i] = 1 THEN 0 ELSE genInits
    /\ Act(t)
    /\ UNCHANGED <<slot, destroyed, ninst, pc, up, new_value, dying, outcome,
                   log, inits, dropper, destroyer, snaps>>

\* Faulty variant of Release: the drop of the last handle also empties the
\* slot (eager invalidation, written without taking the lock).
ReleaseClearsSlot(t, i) ==
    /\ pc[t] = "idle"
    /\ holds[t][i] > 0
    /\ holds' = [holds EXCEPT ![t][i] = @ - 1]
    /\ strong' = [strong EXCEPT ![i] = @ - 1]
    /\ released' = TRUE
    /\ contended' = -1
    /\ IF strong[i] = 1
       THEN /\ pc' = [pc EXCEPT ![t] = "dtor"]
            /\ dying' = [dying EXCEPT ![t] = i]
            /\ dropper' = [dropper EXCEPT ![i] = t]
            /\ genInits' = 0
            /\ value' = Empty
       ELSE UNCHANGED <<pc, dying, dropper, genInits, value>>
    /\ Act(t)
    /\ UNCHANGED <<once, mutex, poisoned, destroyed, ninst, up, new_value,
                   outcome, log, inits, destroyer, snaps>>

\* A handle goes out of scope: Arc's drop decrements the strong count; the
\* thread that takes it from 1 to 0 goes on to run the destructor.
Release(t, i) ==
    /\ pc[t] = "idle"
    /\ holds[t][i] > 0
    /\ holds' = [holds EXCEPT ![t][i] = @ - 1]
    /\ strong' = [strong EXCEPT ![i] = @ - 1]
    /\ released' = TRUE
    /\ contended' = -1
    /\ IF strong[i] = 1
       THEN /\ pc' = [pc EXCEPT ![t] = "dtor"]
            /\ dying' = [dying EXCEPT ![t] = i]
            /\ dropper' = [dropper EXCEPT ![i] = t]
            /\ genInits' = 0
       ELSE UNCHANGED <<pc, dying, dropper, genInits>>
    /\ Act(t)
    /\ UNCHANGED <<slot, destroyed, ninst, up, new_value, outcome, log, inits,
                   destroyer, snaps>>

\* Drop for T runs, on the thread that dropped the last handle.
Destroy(t) ==
    /\ pc[t] = "dtor"
    /\ destroyed' = destroyed \cup {dying[t]}
    /\ destroyer' = [destroyer EXCEPT ![dying[t]] = t]
    /\ log' = Append(log, <<"drop", dying[t]>>)
    /\ dying' = [dying EXCEPT ![t] = Empty]
    /\ pc' = [pc EXCEPT ![t] = "idle"]
    /\ Act(t)
    /\ UNCHANGED <<slot, strong, ninst, up, new_value, holds, outcome, inits,
                   genInits, released, contended, dropper, snaps>>

Next ==
    \E t \in Threads :
        \/ Call(t)
        \/ Lock(t)
        \/ Unwrap(t)
        \/ Upgrade(t)
        \/ InitOk(t)
        \/ InitPanic(t)
        \/ InitReenter(t)
        \/ RelockPanic(t)
        \/ Store(t)
        \/ Return(t)
        \/ \E i \in Inst : Release(t, i)
        \/ Destroy(t)

Spec == Init /\ [][Next]_vars

\* The steps of the accessor body that need nothing from other threads.
Step(t) ==
    \/ Unwrap(t)
    \/ Upgrade(t)
    \/ InitOk(t)
    \/ Store(t)
    \/ Return(t)

\* Fair scheduling: a thread that can take a step of the accessor body or
\* run a pending destructor eventually does; a thread waiting in lock() gets
\* the mutex if it is free again and again.  Calling, dropping, a failing
\* $init and what a re-entrant lock() does are not forced.
Fairness ==
    \A t \in Threads :
        /\ WF_vars(Step(t))
        /\ WF_vars(Destroy(t))
        /\ SF_vars(Lock(t))

\* The program under fair scheduling.
FullFairSpec == Spec /\ Fairness

\* The same steps with construction bounded by MaxFairInst instead of
\* MaxInst: the behaviours of Spec in which calls stop earlier.
FairCall(t) ==
    /\ ninst + Cardinality(MayConstruct) < MaxFairInst
    /\ Call(t)

FairNext ==
    \E t \in Threads :
        \/ FairCall(t)
        \/ Lock(t)
        \/ Unwrap(t)
        \/ Upgrade(t)
        \/ InitOk(t)
        \/ InitPanic(t)
        \/ InitReenter(t)
        \/ RelockPanic(t)
        \/ Store(t)
        \/ Return(t)
        \/ \E i \in Inst : Release(t, i)
        \/ Destroy(t)

FairSpec == Init /\ [][FairNext]_vars /\ Fairness

\* Every strong handle is accounted for: kept by a thread or in flight.
InFlight(i) == Cardinality({t \in Threads : up[t] = i})
               + Cardinality({t \in Threads : new_value[t] = i})

TypeOK ==
    /\ once \in BOOLEAN
    /\ mutex \in Threads \cup {NoThread}
    /\ poisoned \in BOOLEAN
    /\ value \in Inst \cup {Empty}
    /\ ninst \in 0..MaxInst
    /\ destroyed \subseteq Inst
    /\ \A t \in Threads : pc[t] \in InCall \cup {"idle", "dtor"}
    /\ \A i \in Inst :
         strong[i] = SumOver([t \in Threads |-> holds[t][i]], Threads) + InFlight(i)

(***************************************************************************)
(* Properties                                                              *)
(***************************************************************************)

\* Instances thread t has a strong handle to, kept or in flight.
HandlesOf(t) ==
    {i \in Inst : holds[t][i] > 0 \/ up[t] = i \/ new_value[t] = i}

AllHandles == UNION {HandlesOf(t) : t \in Threads}

\* C1 (single-liveness): at every instant at most one instance has a strong
\* count above zero, and all outstanding strong handles, kept by a thread or
\* in flight inside a call, refer to one and the same instance.
C1_SingleLiveness ==
    /\ Cardinality(Live) <= 1
    /\ Cardinality(AllHandles) <= 1
    /\ AllHandles = Live

\* Both threads keep handles to a reconstructed instance.
C1_Witness ==
    /\ ninst >= 2
    /\ \A t \in Threads : holds[t][ninst] > 0

\* C2 (reuse while alive): a call made by a thread that itself keeps a handle
\* returns a handle to that same instance and never enters the initializer;
\* and whenever a call resolves the slot while any thread keeps a handle, the
\* resolution succeeds with that live instance and $init is not evaluated.
C2_ReuseWhileAlive ==
    /\ [](\A t \in Threads :
            /\ pc[t] \in {"init", "store"} => snapOwn[t] = Empty /\ up[t] = Empty
            /\ pc[t] = "init" => Live = {}
            /\ (pc[t] = "ret" /\ snapOwn[t] # Empty) =>
                   /\ Result(t) = snapOwn[t]
                   /\ new_value[t] = Empty
                   /\ ninst = snapN[t])
    /\ [][\A t \in Threads :
            (pc[t] = "upgrade" /\ pc'[t] # "upgrade" /\ Live # {}) =>
                /\ pc'[t] = "ret"
                /\ up'[t] \in Live
                /\ strong'[up'[t]] = strong[up'[t]] + 1
                /\ inits' = inits /\ ninst' = ninst]_vars

\* A thread is returning the instance another thread keeps a handle to.
C2_Witness ==
    \E t, u \in Threads :
        /\ t # u
        /\ pc[t] = "ret"
        /\ up[t] # Empty
        /\ holds[u][up[t]] > 0
        /\ snapOwn[t] = up[t]

\* C3 (reconstruction after full release): a call made when no strong handle
\* is outstanding returns a handle to an instance constructed after the call
\* began, distinct from every earlier instance and not destroyed, and at its
\* return the slot refers to exactly that instance.
C3_ReconstructAfterRelease ==
    \A t \in Threads :
        (pc[t] = "ret" /\ snapVacant[t]) =>
            /\ Result(t) > snapN[t]
            /\ Result(t) \notin destroyed
            /\ strong[Result(t)] > 0
            /\ inits > snapN[t]
            /\ value = Result(t)

\* A call made after the previous instance was fully released has built a
\* new instance and is about to return it.
C3_Witness ==
    \E t \in Threads :
        /\ pc[t] = "ret"
        /\ snapVacant[t]
        /\ snapN[t] >= 1
        /\ new_value[t] = snapN[t] + 1
        /\ snapN[t] \in destroyed

\* C4 (exactly-once construction under contention): once all threads are
\* inside calls made while no instance was alive, and as long as no handle
\* is dropped, $init is evaluated at most once more, every handle obtained
\* refers to the instance that evaluation produced, and when every call has
\* returned normally all threads keep a handle to that one instance.
C4_ExactlyOnceUnderContention ==
    contended >= 0 =>
        /\ inits <= contended + 1
        /\ \A i \in AllHandles : i = ninst /\ inits = contended + 1
        /\ (\A t \in Threads : outcome[t] = "ok") =>
               /\ inits = contended + 1
               /\ \A t \in Threads : holds[t][ninst] > 0

\* All threads raced for the vacant slot and each received a handle.
C4_Witness ==
    /\ contended >= 0
    /\ \A t \in Threads : outcome[t] = "ok" /\ holds[t][ninst] = 1

\* C5 (destruction timing): an instance is destroyed only with strong count
\* 0, by the thread whose drop took the count from 1 to 0; and an instance
\* whose count is 0 is either destroyed already or its destructor is that
\* thread's very next step, which waits for nothing.
C5_DestructionTiming ==
    /\ \A i \in 1..ninst :
         /\ i \in destroyed =>
                strong[i] = 0 /\ destroyer[i] = dropper[i] /\ dropper[i] # NoThread
         /\ strong[i] > 0 =>
                i \notin destroyed /\ \A t \in Threads : dying[t] # i
         /\ (strong[i] = 0 /\ i \notin destroyed) =>
                \E t \in Threads :
                    pc[t] = "dtor" /\ dying[t] = i /\ dropper[i] = t
    /\ \A t \in Threads :
         /\ pc[t] = "dtor" <=> dying[t] # Empty
         /\ \A i \in Inst : holds[t][i] > 0 => i \notin destroyed

\* One instance has been destroyed and its successor is alive.
C5_Witness ==
    \E i \in destroyed : i < ninst /\ strong[ninst] > 0

\* Only one thread has ever run.
Single == Cardinality(active) <= 1

\* new, drop, new, drop, ...; every drop is of the instance just constructed.
Alternates ==
    \A k \in 1..Len(log) :
        IF k % 2 = 1
        THEN log[k][1] = "new"
        ELSE log[k][1] = "drop" /\ log[k][2] = log[k - 1][2]

\* C6 (single-threaded event trace): when one thread alone calls and drops,
\* the events alternate new, drop, new, ... starting with new; a call made
\* with no handle kept adds exactly one "new", a call made with a handle
\* kept adds nothing, and the live window is closed by a "drop" exactly when
\* the thread has released its last handle.
C6_SingleThreadTrace ==
    Single =>
        /\ Alternates
        /\ \A t \in active :
             /\ pc[t] = "idle" => (Held(t) > 0 <=> Len(log) % 2 = 1)
             /\ pc[t] = "dtor" => Held(t) = 0 /\ Len(log) % 2 = 1
             /\ pc[t] \in {"lock", "unwrap", "upgrade", "init", "relock"} =>
                    Len(log) = snapLog[t]
             /\ pc[t] \in {"store", "ret"} =>
                    /\ snapVacant[t] <=> (snapOwn[t] = Empty)
                    /\ Len(log) = snapLog[t] + (IF snapVacant[t] THEN 1 ELSE 0)

\* The documented run: one thread alone, two live windows opened and closed,
\* events new, drop, new, drop.
C6_Witness ==
    /\ Single
    /\ Len(log) = 4
    /\ [k \in 1..4 |-> log[k][1]] = <<"new", "drop", "new", "drop">>
    /\ \A t \in Threads : Held(t) = 0 /\ pc[t] = "idle"

\* The slot's reference when no construction is under way: the most recently
\* constructed instance, or nothing if none was ever constructed.
Latest == IF ninst = 0 THEN Empty ELSE ninst

\* C7 (initializer failure): after $init has panicked in a call, the slot
\* holds no reference to a partly constructed instance, the panicking thread
\* no longer holds the lock, and later calls are not turned away at the lock:
\* they can retry construction.
C7_InitFailureRetry ==
    inits > ninst =>
        /\ value = Latest
        /\ \A t \in Threads :
             /\ outcome[t] = "initpanic" => mutex # t
             /\ pc[t] # "unwrap"
             /\ outcome[t] # "poison"

\* C8 (poisoning is fatal): while the mutex is poisoned no thread is inside
\* the resolve-or-construct section, and from then on the mutex stays
\* poisoned, the slot's reference and the number of $init evaluations and of
\* instances never change, no thread gains a handle, and every call that
\* ends ends in the propagated poison failure.
C8_PoisonIsFatal ==
    /\ [](poisoned => \A t \in Threads : pc[t] \notin Critical)
    /\ [][poisoned =>
            /\ poisoned'
            /\ value' = value
            /\ inits' = inits
            /\ ninst' = ninst
            /\ \A t \in Threads :
                 /\ \A i \in Inst : holds'[t][i] <= holds[t][i]
                 /\ \A i \in Inst : strong'[i] <= strong[i]
                 /\ (pc[t] \in InCall /\ pc'[t] \notin InCall) =>
                        outcome'[t] = "poison"]_vars

\* A call made after the poisoning has failed at the lock.
C8_Witness ==
    /\ poisoned
    /\ \E t, u \in Threads :
         t # u /\ outcome[t] = "initpanic" /\ outcome[u] = "poison"

\* C9 (lock scope): the lock is held only by a thread inside lock()..return
\* of a call; it is free whenever no call is in progress; a thread that is
\* outside a call (keeping handles or not) or running a destructor does not
\* hold it.
C9_LockScope ==
    /\ mutex # NoThread => pc[mutex] \in Critical \cup {"unwrap"}
    /\ (\A t \in Threads : pc[t] \notin InCall) => mutex = NoThread
    /\ \A t \in Threads : pc[t] \in {"idle", "dtor", "lock"} => mutex # t

\* One thread keeps a handle while another holds the lock, and one thread
\* runs a destructor while another holds the lock.
C9_Witness ==
    \E t, u \in Threads :
        /\ t # u
        /\ pc[t] = "dtor"
        /\ mutex = u
        /\ pc[u] = "init"

\* C10 (mutual exclusion of construction): at most one thread is inside the
\* resolve-or-construct section, and it is the lock holder; and $init is
\* evaluated at most once between the strong count reaching zero (or the
\* start) and the next time it reaches zero.
C10_ConstructionExclusive ==
    /\ Cardinality({t \in Threads : pc[t] \in Critical \cup {"unwrap"}}) <= 1
    /\ \A t \in Threads : pc[t] \in Critical \cup {"unwrap"} => mutex = t
    /\ genInits <= 1
    /\ \A t \in Threads : pc[t] = "init" => genInits = 0

\* Two threads saw the same vacancy; one constructs, the other waits.
C10_Witness ==
    \E t, u \in Threads :
        /\ t # u
        /\ ninst >= 1
        /\ pc[t] = "store"
        /\ pc[u] = "lock"
        /\ snapVacant[t] /\ snapVacant[u]
        /\ snapN[t] = snapN[u]

\* Instances whose strong count has reached zero: the last handle was dropped.
Dropped == {i \in Inst : dropper[i] # NoThread}

\* C11 (race-free upgrade): no handle, kept or in flight, ever refers to an
\* instance whose strong count has reached zero or whose destructor has
\* started or finished; and a resolution step racing with drops on other
\* threads has exactly two outcomes: it succeeds on a referent whose count is
\* still positive, which adds one to the count (so a later drop elsewhere
\* cannot take it to zero), or it fails, changes no count, and the caller
\* enters the initializer.
C11_RaceFreeUpgrade ==
    /\ [](\A t \in Threads : \A i \in HandlesOf(t) :
            /\ strong[i] > 0
            /\ i \notin Dropped
            /\ i \notin destroyed
            /\ \A u \in Threads : dying[u] # i)
    /\ [][\A t \in Threads :
            (pc[t] = "upgrade" /\ pc'[t] # "upgrade") =>
                \/ /\ value # Empty /\ strong[value] > 0
                   /\ pc'[t] = "ret" /\ up'[t] = value
                   /\ strong' = [strong EXCEPT ![value] = @ + 1]
                \/ /\ value = Empty \/ strong[value] = 0
                   /\ pc'[t] = "init" /\ up'[t] = Empty
                   /\ strong' = strong]_vars

\* Thread u has dropped the last handle and has not yet run the destructor;
\* thread t, inside the critical section, found the stale reference dead.
C11_Witness ==
    \E t, u \in Threads :
        /\ t # u
        /\ pc[u] = "dtor"
        /\ dying[u] = value
        /\ pc[t] = "init"
        /\ mutex = t

\* C12 (slot invariant): whenever the lock is free, the slot's reference is
\* empty if no instance was ever constructed and otherwise refers to the
\* most recently constructed instance; every instance with a positive strong
\* count is the one the slot refers to; and an instance whose count has
\* dropped to zero stays at zero and is never the result of a resolution.
C12_SlotInvariant ==
    /\ mutex = NoThread =>
           /\ value = Latest
           /\ Live \subseteq {value}
    /\ \A i \in Dropped :
           /\ strong[i] = 0
           /\ \A t \in Threads : up[t] # i /\ holds[t][i] = 0

\* The lock is free, the slot still refers to an instance that is already
\* destroyed, and an earlier instance was reconstructed before.
C12_Witness ==
    /\ mutex = NoThread
    /\ ninst >= 2
    /\ value = ninst
    /\ value \in destroyed
    /\ \A t \in Threads : pc[t] = "idle"

\* Thread t is on the reuse path: its resolution succeeded.
Reusing(t) == pc[t] = "ret" /\ up[t] # Empty

\* Thread t drops a handle, or runs a destructor, in this step.
Dropping(t) ==
    \/ \E i \in Inst : holds'[t][i] < holds[t][i]
    \/ pc[t] = "dtor" /\ pc'[t] # "dtor"

\* C13 (frame of the reuse path): a successful resolution changes nothing
\* but the referent's strong count, which grows by exactly one, and the
\* caller's own handle; the return that follows only releases the lock and
\* hands that handle over; neither step touches the slot's reference,
\* constructs, evaluates $init or logs an event.  Dropping a handle and
\* running a destructor never write to the slot (reference, lock, poison).
C13_ReuseFrame ==
    [][\A t \in Threads :
         /\ (pc[t] = "upgrade" /\ Reusing(t)') =>
                /\ strong' = [strong EXCEPT ![value] = @ + 1]
                /\ up' = [up EXCEPT ![t] = value]
                /\ UNCHANGED <<slot, destroyed, ninst, new_value, dying, holds,
                               log, inits>>
         /\ (Reusing(t) /\ pc'[t] # "ret") =>
                /\ mutex' = NoThread
                /\ holds' = [holds EXCEPT ![t][up[t]] = @ + 1]
                /\ outcome'[t] = "ok"
                /\ UNCHANGED <<once, poisoned, value, strong, destroyed, ninst,
                               dying, log, inits>>
         /\ Dropping(t) => UNCHANGED slot]_vars

\* After a drop somewhere, a call is returning the live instance it resolved
\* while another thread still keeps a handle to it.
C13_Witness ==
    \E t \in Threads :
        /\ Reusing(t)
        /\ up[t] = value
        /\ strong[value] >= 2
        /\ released
        /\ destroyed # {}

\* Thread t is on the construct path, past the initializer.
Constructed(t) == pc[t] \in {"store", "ret"} /\ new_value[t] # Empty

\* C14 (construct path): a call whose resolution failed evaluates $init
\* exactly once, holding the lock from the resolution until its return; the
\* instance it built is the newest one and has strong count 1; before the
\* lock is released the slot refers to exactly that instance, which is the
\* one returned; and the caller leaves with one more handle, to it, the
\* count still 1.
C14_ConstructPath ==
    /\ [](\A t \in Threads :
            /\ pc[t] = "init" => mutex = t /\ genInits = 0 /\ Result(t) = Empty
            /\ Constructed(t) =>
                   /\ mutex = t
                   /\ genInits = 1
                   /\ up[t] = Empty
                   /\ new_value[t] = ninst
                   /\ strong[new_value[t]] = 1
                   /\ new_value[t] \notin destroyed
                   /\ pc[t] = "ret" => value = new_value[t])
    /\ [][\A t \in Threads :
            /\ (pc[t] = "init" /\ pc'[t] = "store") =>
                   inits' = inits + 1 /\ ninst' = ninst + 1 /\ value' = value
            /\ (Constructed(t) /\ pc[t] = "store" /\ pc'[t] # "store") =>
                   /\ pc'[t] = "ret" /\ value' = new_value[t]
                   /\ inits' = inits /\ ninst' = ninst /\ strong' = strong
            /\ (Constructed(t) /\ pc[t] = "ret" /\ pc'[t] # "ret") =>
                   /\ value' = new_value[t]
                   /\ mutex' = NoThread
                   /\ holds' = [holds EXCEPT ![t][new_value[t]] = @ + 1]
                   /\ strong'[new_value[t]] = 1
                   /\ inits' = inits]_vars

\* A call that found a stale reference has built the next instance and
\* stored it; the previous instance is destroyed.
C14_Witness ==
    \E t \in Threads :
        /\ Constructed(t)
        /\ pc[t] = "ret"
        /\ ninst >= 2
        /\ (ninst - 1) \in destroyed
        /\ \E u \in Threads : u # t /\ pc[u] = "lock"

\* Some evaluation of $init has failed or has called the accessor again.
InitMisbehaved == poisoned \/ \E u \in Threads : pc[u] = "relock"

Older == 1..(ninst - 1)

\* The event trace is well formed: instances are constructed in order, each
\* once; an instance is dropped at most once, after its own construction,
\* and exactly the destroyed instances have a drop event.
LogWellFormed ==
    /\ \A i \in 1..ninst : \E k \in 1..Len(log) : log[k] = <<"new", i>>
    /\ \A k, l \in 1..Len(log) :
         /\ (k < l /\ log[k][1] = "new" /\ log[l][1] = "new") =>
                log[k][2] < log[l][2]
         /\ k # l => log[k] # log[l]
    /\ \A k \in 1..Len(log) :
         log[k][1] = "drop" => \E j \in 1..(k - 1) : log[j] = <<"new", log[k][2]>>
    /\ \A i \in Inst :
         i \in destroyed <=> \E k \in 1..Len(log) : log[k] = <<"drop", i>>

\* C16 as stated (successive instances do not overlap in any interleaving):
\* whenever instance k+1 has been constructed the teardown of instance k has
\* completed, so the global trace alternates new, drop, new, drop.
C16_TeardownBeforeNextInit ==
    /\ \A i \in Older : i \in destroyed
    /\ Alternates

\* C16 as amended: successive instances never have strong handles at the same
\* time: when instance k+1 exists, the strong count of every older instance
\* has reached zero, and each older instance is either torn down or its
\* teardown is the pending next step of the thread that dropped its last
\* handle (at most one per thread); the trace is well formed, each drop
\* following its own new, but a drop of k may come after the new of k+1.
C16_HandlesDoNotOverlap ==
    /\ \A i \in Older :
         /\ strong[i] = 0
         /\ i \in Dropped
         /\ i \in destroyed \/ \E t \in Threads : pc[t] = "dtor" /\ dying[t] = i
    /\ \A t, u \in Threads : (dying[t] # Empty /\ dying[t] = dying[u]) => t = u
    /\ LogWellFormed

\* Instance k+1 is alive and in use while the destructor of instance k has
\* not run yet: the trace so far ends new k, new k+1.
C16_Witness ==
    /\ ninst >= 2
    /\ \E t \in Threads : holds[t][ninst] > 0
    /\ (ninst - 1) \notin destroyed
    /\ log[Len(log)] = <<"new", ninst>>
    /\ log[Len(log) - 1] = <<"new", ninst - 1>>

\* Some thread is stuck in the inner lock() of a re-entrant $init.
Reentered == \E t \in Threads : pc[t] = "relock"

\* C17 (re-entrancy): a thread whose $init has called the accessor again is
\* inside lock() on the mutex it holds itself and has no handle from either
\* call; it stays there or panics, never reaching a resolution or a normal
\* return; while it stays every other caller remains blocked in lock(); if
\* it panics the mutex is poisoned; and from the re-entry on no call of any
\* thread returns a handle, no instance is constructed and the slot's
\* reference does not change.
C17_Reentrancy ==
    /\ [](\A t \in Threads :
            pc[t] = "relock" =>
                /\ mutex = t
                /\ Result(t) = Empty
                /\ \A u \in Threads \ {t} : pc[u] \notin Critical \cup {"unwrap"})
    /\ [][\A t \in Threads :
            pc[t] = "relock" =>
                /\ pc'[t] \in {"relock", "idle"}
                /\ pc'[t] = "idle" =>
                       outcome'[t] = "initpanic" /\ poisoned' /\ mutex' = NoThread
                /\ pc'[t] = "relock" =>
                       /\ mutex' = t
                       /\ \A u \in Threads : pc[u] = "lock" => pc'[u] = "lock"]_vars
    /\ [][(Reentered \/ (poisoned /\ inits > ninst)) =>
            /\ Reentered' \/ poisoned'
            /\ value' = value
            /\ ninst' = ninst
            /\ \A u \in Threads :
                 /\ \A i \in Inst : holds'[u][i] <= holds[u][i]
                 /\ (pc[u] \in InCall /\ pc'[u] \notin InCall) =>
                        outcome'[u] \in {"poison", "initpanic"}]_vars

\* After an earlier instance was built and released, one thread is stuck in
\* the inner lock() of a re-entrant $init while another waits for the lock.
C17_Witness ==
    \E t, u \in Threads :
        /\ t # u
        /\ pc[t] = "relock"
        /\ mutex = t
        /\ pc[u] = "lock"
        /\ ninst >= 1

\* C18 (slot initialisation): before the first call the storage is untouched;
\* the first call, and no other, initialises it, to an empty reference behind
\* an unlocked, unpoisoned mutex, also when further first calls are already
\* waiting; every later call leaves reference, lock and poison as they are;
\* no handle is obtained before an instance has been constructed (the first
\* resolution constructs); and the slot's reference changes only by a
\* constructing call storing its new instance: it is never reset to empty
\* and never changes while its referent is alive.
C18_SlotInitOnce ==
    /\ [](~once =>
            /\ value = Empty /\ mutex = NoThread /\ ~poisoned /\ ninst = 0
            /\ \A t \in Threads : pc[t] = "idle")
    /\ [](ninst = 0 => \A t \in Threads : up[t] = Empty /\ Held(t) = 0)
    /\ [][/\ once => once'
          /\ \A t \in Threads :
               (pc[t] = "idle" /\ pc'[t] = "lock") =>
                   /\ once'
                   /\ once => UNCHANGED <<value, mutex, poisoned>>
                   /\ ~once => value' = Empty /\ mutex' = NoThread /\ ~poisoned'
          /\ value # Empty => value' # Empty
          /\ value' # value =>
                 \E t \in Threads : pc[t] = "store" /\ value' = new_value[t]
          /\ (value # Empty /\ strong[value] > 0) => value' = value]_vars

\* Two first calls were made concurrently: one has constructed instance 1 and
\* stored it, the other, made before any instance existed, still waits.
C18_Witness ==
    \E t, u \in Threads :
        /\ t # u
        /\ pc[t] = "ret" /\ new_value[t] = 1 /\ value = 1
        /\ pc[u] = "lock" /\ snapN[u] = 0 /\ snapVacant[u]
        /\ snapN[t] = 0

====
